---- MODULE Spec2Model ----
(***************************************************************************)
(* Model of the microgrid simulation step of src/app_turkish.py:           *)
(* st.session_state as the variables, the sidebar widgets of main() as     *)
(* operator actions, and update_microgrid_state() as one atomic action.    *)
(*                                                                         *)
(* Floats are modelled as exact fixed-point integers:                      *)
(*   power      : watts              (kW * 1000)                           *)
(*   frequency  : 10 micro-hertz     (Hz * 100000)                         *)
(*   voltage    : millivolts         (V  * 1000)                           *)
(*   battery_soc: 1/180000 percent   (%  * 180000), so that the code's     *)
(*                soc += (P_kW * dt / 3600) * 20 is soc += P_W * dt        *)
(*   time, dt   : whole seconds                                            *)
(***************************************************************************)
EXTENDS Integers, Sequences, FiniteSets, TLC

VARIABLES
  simulation_running,    \* st.session_state.simulation_running
  secondary_ai_enabled,  \* st.session_state.secondary_ai_enabled
  tertiary_ai_enabled,   \* st.session_state.tertiary_ai_enabled
  island_mode,           \* st.session_state.island_mode
  scenario_flags,        \* st.session_state.scenario_flags
  battery_soc,           \* st.session_state.battery_soc
  voltage,               \* st.session_state.voltage
  frequency,             \* st.session_state.frequency
  pv_output,             \* st.session_state.pv_output
  load_demand,           \* st.session_state.load_demand
  grid_power,            \* st.session_state.grid_power
  data_history,          \* st.session_state.data_history (seven columns)
  last_update,           \* st.session_state.last_update
  power_imbalance,       \* local power_imbalance of the last completed tick
  freq_error,            \* frequency - nominal_freq after the droop stage
  freq_corrected,        \* frequency after the secondary stage, before the clamp
  branches,              \* the conditional branches the last tick executed
  outcome,               \* how the last operation ended
  ticks,                 \* calls of update_microgrid_state made while running
  steps                  \* operations performed so far (bounded by MaxSteps)

vars == <<simulation_running, secondary_ai_enabled, tertiary_ai_enabled,
          island_mode, scenario_flags, battery_soc, voltage, frequency,
          pv_output, load_demand, grid_power, data_history, last_update,
          power_imbalance, freq_error, freq_corrected, branches, outcome,
          ticks, steps>>

\* ---------------------------------------------------------------- bounds

\* Number of operations (operator inputs and ticks) explored from Init.
MaxSteps == 4

\* ------------------------------------------------------------- constants

SocInit == 14400000          \* 80.0 %
SocChargeLimit == 17100000   \* 95 %
SocDischargeLimit == 1800000 \* 10 %
SocLow == 3600000            \* 20 %
SocMin == 0                  \* 0 %
SocMax == 18000000           \* 100 %
VoltageInit == 230000        \* 230.0 V
FrequencyInit == 5000000     \* 50.0 Hz
PvInit == 3000               \* 3.0 kW
LoadInit == 3500             \* 3.5 kW
GridInit == 500              \* 0.5 kW
BasePvNominal == 3000        \* 3.0 kW
BaseLoadNominal == 3500      \* 3.5 kW
LoadRampExtra == 1500        \* 1.5 kW
PeakLoadExtra == 2000        \* 2.0 kW
PvFloor == 0                 \* max(0, base_pv)
LoadFloor == 500             \* max(0.5, base_load)
MaxBatteryPower == 2000      \* 2.0 kW charge / discharge limit
NominalFreq == 5000000       \* 50.0 Hz
NominalVoltage == 230000     \* 230.0 V
DroopCoefficient == 5        \* 0.05 Hz per kW = 5 (10 uHz) per W
FreqThreshold == 20000       \* 0.2 Hz
VoltageThreshold == 5000     \* 5 V
CorrectionTime == 5          \* 0.2 * dt = dt / 5
ImportThreshold == 1000      \* 1.0 kW
ReductionTime == 50          \* 0.02 * dt = dt / 50
RechargeRate == 500          \* 0.5 kW per second
FreqMin == 4950000           \* 49.5 Hz
FreqMax == 5050000           \* 50.5 Hz
VoltageMin == 220000         \* 220 V
VoltageMax == 240000         \* 240 V
HistoryCap == 50             \* data points kept

ScenarioNames ==
  {"load_ramp", "pv_drop", "battery_disconnect", "grid_blackout", "peak_load"}

HistoryKeys ==
  {"time", "voltage", "frequency", "battery_soc", "pv_output", "load_demand",
   "grid_power"}

\* ---------------------------------------------------------------- inputs

\* random.uniform(-0.3, 0.3): the two extremes.
PvNoise == {-300, 300}
\* random.uniform(-0.5, 0.5): the two extremes.
LoadNoise == {-500, 500}
\* random.uniform(-0.1, 0.1): the two extremes.
FreqNoise == {-10000, 10000}
\* random.uniform(-3, 3): the two extremes.
VoltageNoise == {-3000, 3000}
\* The four draws of one tick.  Power and frequency draws are independent;
\* the voltage draw, which no comparison of the step can tell apart (|v| <= 3
\* is below the 5 V dead band and the 10 V clamp), goes with the frequency
\* draw's sign.
Disturbances ==
  {[pv |-> p, load |-> l, freq |-> f, voltage |-> v] :
     p \in PvNoise, l \in LoadNoise,
     <<f, v>> \in {fv \in FreqNoise \X VoltageNoise : (fv[1] > 0) = (fv[2] > 0)}}
\* time.time() - last_update: the 2 s refresh cadence, and a two-hour gap
\* (the session sat idle, or the host was suspended).
DtSet == {2, 7200}

\* --------------------------------------------------------------- helpers

Abs(x) == IF x < 0 THEN -x ELSE x
Max(a, b) == IF a > b THEN a ELSE b
Min(a, b) == IF a < b THEN a ELSE b

\* Python's lst[-50:] after an append.
LastN(s, n) == IF Len(s) > n THEN SubSeq(s, Len(s) - n + 1, Len(s)) ELSE s

\* ------------------------------------------------------------------ Init

\* initialize_session_state(): the fixed defaults of a new session.
Init ==
  /\ simulation_running = FALSE
  /\ secondary_ai_enabled = TRUE
  /\ tertiary_ai_enabled = TRUE
  /\ island_mode = FALSE
  /\ battery_soc = SocInit
  /\ voltage = VoltageInit
  /\ frequency = FrequencyInit
  /\ pv_output = PvInit
  /\ load_demand = LoadInit
  /\ grid_power = GridInit
  /\ data_history = [k \in HistoryKeys |-> <<>>]
  /\ scenario_flags = [n \in ScenarioNames |-> FALSE]
  /\ last_update = 0
  /\ power_imbalance = 0
  /\ freq_error = 0
  /\ freq_corrected = FrequencyInit
  /\ branches = {}
  /\ outcome = "init"
  /\ ticks = 0
  /\ steps = 0

\* ------------------------------------------------------- operator inputs

tickLocals == <<power_imbalance, freq_error, freq_corrected, branches>>

simFields == <<battery_soc, voltage, frequency, pv_output, load_demand,
               grid_power, data_history, last_update>>

\* Every operator input is one widget event: it changes one input field and
\* nothing of the simulation.
OperatorInput ==
  /\ steps < MaxSteps
  /\ steps' = steps + 1
  /\ outcome' = "input"
  /\ UNCHANGED <<simFields, tickLocals, ticks>>

\* The start / stop button.
ToggleSimulation ==
  /\ OperatorInput
  /\ simulation_running' = ~simulation_running
  /\ UNCHANGED <<secondary_ai_enabled, tertiary_ai_enabled, island_mode,
                 scenario_flags>>

\* The secondary AI checkbox.
SetSecondaryAi ==
  /\ OperatorInput
  /\ secondary_ai_enabled' = ~secondary_ai_enabled
  /\ UNCHANGED <<simulation_running, tertiary_ai_enabled, island_mode,
                 scenario_flags>>

\* The tertiary AI checkbox.
SetTertiaryAi ==
  /\ OperatorInput
  /\ tertiary_ai_enabled' = ~tertiary_ai_enabled
  /\ UNCHANGED <<simulation_running, secondary_ai_enabled, island_mode,
                 scenario_flags>>

\* The island mode checkbox.
SetIslandMode ==
  /\ OperatorInput
  /\ island_mode' = ~island_mode
  /\ UNCHANGED <<simulation_running, secondary_ai_enabled, tertiary_ai_enabled,
                 scenario_flags>>

\* One of the five scenario buttons.
ToggleScenario ==
  /\ OperatorInput
  /\ \E name \in ScenarioNames :
       scenario_flags' = [scenario_flags EXCEPT ![name] = ~scenario_flags[name]]
  /\ UNCHANGED <<simulation_running, secondary_ai_enabled, tertiary_ai_enabled,
                 island_mode>>

\* ------------------------------------------------- the stages of one tick

\* The early return left out: the step runs whether or not the simulation
\* is running.
EarlyReturnNever == FALSE

\* if not st.session_state.simulation_running: return
EarlyReturn == ~simulation_running

\* base_pv with the pv_drop scenario applied, floored.
PvOutput(noise, flags) ==
  LET base == BasePvNominal + noise
      dropped == IF flags["pv_drop"] THEN (base * 3) \div 10 ELSE base
  IN  Max(PvFloor, dropped)

\* base_load with the load_ramp and peak_load scenarios applied, floored.
LoadDemand(noise, flags) ==
  LET base == BaseLoadNominal + noise
      ramped == IF flags["load_ramp"] THEN base + LoadRampExtra ELSE base
      peaked == IF flags["peak_load"] THEN ramped + PeakLoadExtra ELSE ramped
  IN  Max(LoadFloor, peaked)

\* The battery_disconnect test left out: the battery always takes part.
BatteryConnectedAlways(flags) == TRUE

\* if not st.session_state.scenario_flags['battery_disconnect']:
BatteryConnected(flags) == ~flags["battery_disconnect"]

\* The state-of-charge clamp left out.
ClampSocOff(soc) == soc

\* max(0, min(100, battery_soc))
ClampSoc(soc) == Max(SocMin, Min(SocMax, soc))

\* Battery management.  bound says whether the local power_balance has been
\* assigned: the battery_disconnect branch leaves it unbound.
BatteryStage(soc, pv, load, dt, flags) ==
  IF BatteryConnected(flags)
  THEN LET balance == pv - load IN
       IF balance > 0
       THEN LET charge_power == Min(balance, MaxBatteryPower) IN
            [soc |-> ClampSoc(IF soc < SocChargeLimit
                                THEN soc + charge_power * dt ELSE soc),
             power_balance |-> balance - charge_power,
             bound |-> TRUE,
             branch |-> {"charge"}]
       ELSE IF balance < 0 /\ soc > SocDischargeLimit
       THEN LET discharge_power == Min(Abs(balance), MaxBatteryPower) IN
            [soc |-> ClampSoc(soc - discharge_power * dt),
             power_balance |-> balance + discharge_power,
             bound |-> TRUE,
             branch |-> {"discharge"}]
       ELSE [soc |-> ClampSoc(soc), power_balance |-> balance, bound |-> TRUE,
             branch |-> {}]
  ELSE [soc |-> soc, power_balance |-> 0, bound |-> FALSE, branch |-> {}]

\* Grid interaction reads power_balance only off island mode and blackout.
GridReadsBalance(flags, island) == ~(flags["grid_blackout"] \/ island)

\* The abs() left out: the signed grid_power enters the imbalance.
PowerImbalanceSigned(pv, grid, load) == pv + grid - load

\* power_imbalance = pv_output + abs(grid_power) - load_demand
PowerImbalance(pv, grid, load) == pv + Abs(grid) - load

\* nominal_freq + freq_deviation + random.uniform(-0.1, 0.1)
DroopFrequency(imbalance, noise) ==
  NominalFreq + (-imbalance * DroopCoefficient) + noise

\* The secondary correction of one quantity: value -= error * 0.2 * dt
\* beyond the dead band.
SecondaryApplies(value, nominal, threshold) == Abs(value - nominal) > threshold

SecondaryCorrect(value, nominal, dt) ==
  value - ((value - nominal) * dt) \div CorrectionTime

\* Tertiary control of grid_power: import decay, then low-SoC recharge.
ImportDecayApplies(grid) == grid > ImportThreshold

RechargeApplies(soc, island) == soc < SocLow /\ ~island

TertiaryGrid(grid, soc, island, dt) ==
  LET decayed == IF ImportDecayApplies(grid)
                   THEN (grid * (ReductionTime - dt)) \div ReductionTime
                   ELSE grid
  IN  IF RechargeApplies(soc, island) THEN decayed + RechargeRate * dt
      ELSE decayed

\* The frequency clamp left out.
ClampFrequencyOff(f) == f

\* max(49.5, min(50.5, frequency))
ClampFrequency(f) == Max(FreqMin, Min(FreqMax, f))

\* max(220, min(240, voltage))
ClampVoltage(v) == Max(VoltageMin, Min(VoltageMax, v))

\* The seven appends, then the pruning of every column to its last 50.
AppendHistory(h, rec) ==
  [k \in HistoryKeys |-> LastN(Append(h[k], rec[k]), HistoryCap)]

\* --------------------------------------------------- update_microgrid_state

\* The call returns at once: nothing of the session state changes.
TickReturnsEarly ==
  /\ outcome' = "idle"
  /\ UNCHANGED <<simulation_running, secondary_ai_enabled, tertiary_ai_enabled,
                 island_mode, scenario_flags, simFields, tickLocals, ticks>>

\* The call raises UnboundLocalError at grid_power = power_balance: the
\* timestamp, pv_output and load_demand are already written, nothing else is.
TickRaises(now, pv, load) ==
  /\ outcome' = "raised"
  /\ ticks' = ticks + 1
  /\ last_update' = now
  /\ pv_output' = pv
  /\ load_demand' = load
  /\ UNCHANGED <<simulation_running, secondary_ai_enabled, tertiary_ai_enabled,
                 island_mode, scenario_flags, battery_soc, voltage, frequency,
                 grid_power, data_history, tickLocals>>

\* The call runs to its end, from the grid interaction on.
TickCompletes(now, dt, pv, load, bat, fnoise, vnoise) ==
  LET grid_assigned == IF GridReadsBalance(scenario_flags, island_mode)
                         THEN bat.power_balance ELSE 0
      imbalance == PowerImbalance(pv, grid_assigned, load)
      f_droop == DroopFrequency(imbalance, fnoise)
      v_droop == NominalVoltage + vnoise
      fix_f == secondary_ai_enabled
                 /\ SecondaryApplies(f_droop, NominalFreq, FreqThreshold)
      fix_v == secondary_ai_enabled
                 /\ SecondaryApplies(v_droop, NominalVoltage, VoltageThreshold)
      f_sec == IF fix_f THEN SecondaryCorrect(f_droop, NominalFreq, dt)
               ELSE f_droop
      v_sec == IF fix_v THEN SecondaryCorrect(v_droop, NominalVoltage, dt)
               ELSE v_droop
      grid_final == IF tertiary_ai_enabled
                      THEN TertiaryGrid(grid_assigned, bat.soc, island_mode, dt)
                      ELSE grid_assigned
      taken == bat.branch
                 \cup (IF fix_f THEN {"secondary_freq"} ELSE {})
                 \cup (IF fix_v THEN {"secondary_voltage"} ELSE {})
                 \cup (IF tertiary_ai_enabled /\ ImportDecayApplies(grid_assigned)
                         THEN {"import_decay"} ELSE {})
                 \cup (IF tertiary_ai_enabled
                            /\ RechargeApplies(bat.soc, island_mode)
                         THEN {"recharge"} ELSE {})
      rec == [time |-> now,
              voltage |-> ClampVoltage(v_sec),
              frequency |-> ClampFrequency(f_sec),
              battery_soc |-> bat.soc,
              pv_output |-> pv,
              load_demand |-> load,
              grid_power |-> grid_final]
  IN  /\ outcome' = "completed"
      /\ ticks' = ticks + 1
      /\ last_update' = now
      /\ pv_output' = pv
      /\ load_demand' = load
      /\ battery_soc' = bat.soc
      /\ grid_power' = grid_final
      /\ frequency' = rec.frequency
      /\ voltage' = rec.voltage
      /\ data_history' = AppendHistory(data_history, rec)
      /\ power_imbalance' = imbalance
      /\ freq_error' = f_droop - NominalFreq
      /\ freq_corrected' = f_sec
      /\ branches' = taken
      /\ UNCHANGED <<simulation_running, secondary_ai_enabled,
                     tertiary_ai_enabled, island_mode, scenario_flags>>

\* One call of update_microgrid_state(): dt is the wall-clock time since
\* last_update, the four noises are the call's random.uniform draws.
UpdateMicrogridState ==
  /\ steps < MaxSteps
  /\ steps' = steps + 1
  /\ \E dt \in DtSet, noise \in Disturbances :
       IF EarlyReturn
       THEN TickReturnsEarly
       ELSE LET now == last_update + dt
                pv == PvOutput(noise.pv, scenario_flags)
                load == LoadDemand(noise.load, scenario_flags)
                bat == BatteryStage(battery_soc, pv, load, dt, scenario_flags)
            IN  IF GridReadsBalance(scenario_flags, island_mode) /\ ~bat.bound
                THEN TickRaises(now, pv, load)
                ELSE TickCompletes(now, dt, pv, load, bat, noise.freq, noise.voltage)

\* ----------------------------------------------------------- specification

Next ==
  \/ ToggleSimulation
  \/ SetSecondaryAi
  \/ SetTertiaryAi
  \/ SetIslandMode
  \/ ToggleScenario
  \/ UpdateMicrogridState

Spec == Init /\ [][Next]_vars

\* While the simulation runs, main() sleeps two seconds and reruns the script,
\* so calls of update_microgrid_state() keep coming; an idle session waits
\* for the operator and may wait forever.
FairSpec == Spec /\ WF_vars(simulation_running /\ UpdateMicrogridState)

\* ------------------------------------------------------------------ claims

\* A step that is a call of update_microgrid_state() made while running.
ActiveTick == ticks' = ticks + 1

\* A step that is a call of update_microgrid_state(), running or not.
TickCall == steps' = steps + 1 /\ outcome' \in {"idle", "raised", "completed"}

HistoryLen == Len(data_history["time"])

\* C1: after a tick that ran while Active, island mode or a grid blackout
\* means grid_power is exactly 0, in the state and in the record appended.
C1_GridZeroWhenIslanded ==
  (outcome = "completed"
     /\ (island_mode \/ scenario_flags["grid_blackout"]))
  => /\ grid_power = 0
     /\ data_history["grid_power"][HistoryLen] = 0

\* C2: a call of update_microgrid_state() made while Active never raises.
C2_TickNeverRaises == outcome # "raised"

\* C3: battery_soc stays within 0..100 %, in the state and in every record.
C3_SocInRange ==
  /\ SocMin <= battery_soc /\ battery_soc <= SocMax
  /\ \A i \in 1..Len(data_history["battery_soc"]) :
       /\ SocMin <= data_history["battery_soc"][i]
       /\ data_history["battery_soc"][i] <= SocMax

\* C3 witness: a tick completed with the state of charge held at 100 % by the
\* clamp (80 % plus 12 % steps passes 100 %).
C3_SocClampedAtFull == outcome = "completed" /\ battery_soc = SocMax

\* C4: frequency stays within 49.5..50.5 Hz and voltage within 220..240 V, in
\* the state and in every record of the history.
C4_FrequencyVoltageInRange ==
  /\ FreqMin <= frequency /\ frequency <= FreqMax
  /\ VoltageMin <= voltage /\ voltage <= VoltageMax
  /\ \A i \in 1..Len(data_history["frequency"]) :
       /\ FreqMin <= data_history["frequency"][i]
       /\ data_history["frequency"][i] <= FreqMax
  /\ \A i \in 1..Len(data_history["voltage"]) :
       /\ VoltageMin <= data_history["voltage"][i]
       /\ data_history["voltage"][i] <= VoltageMax

\* C4 witness: a tick completed whose frequency left the secondary stage
\* below 49.5 Hz and was clamped.
C4_FrequencyClamped ==
  /\ outcome = "completed"
  /\ freq_corrected < FreqMin
  /\ frequency = FreqMin
  /\ data_history["frequency"][HistoryLen] = FreqMin

\* C5: the history holds min(n, 50) records after n ticks made while Active,
\* in each of its columns.
C5_HistoryLengthIsTicks ==
  \A k \in HistoryKeys : Len(data_history[k]) = Min(ticks, HistoryCap)

\* C6: a call made while not running changes no field, and no call changes
\* simulation_running.
C6_IdleTickChangesNothing ==
  [][TickCall =>
       /\ simulation_running' = simulation_running
       /\ ~simulation_running =>
            UNCHANGED <<voltage, frequency, battery_soc, pv_output, load_demand,
                        grid_power, last_update, scenario_flags, data_history,
                        secondary_ai_enabled, tertiary_ai_enabled, island_mode>>]_vars

\* C6 witness: a call returned early in a session that has already ticked.
C6_IdleCallAfterTicks == outcome = "idle" /\ ticks > 0 /\ HistoryLen > 0

\* C7: a tick that starts with battery_disconnect set leaves battery_soc as
\* it was.
C7_DisconnectFreezesSoc ==
  [][(TickCall /\ simulation_running /\ scenario_flags["battery_disconnect"])
       => battery_soc' = battery_soc]_vars

\* C7 witness: a tick completed with the battery disconnected and pv_output
\* different from load_demand.
C7_DisconnectedTickCompleted ==
  /\ outcome = "completed"
  /\ scenario_flags["battery_disconnect"]
  /\ pv_output # load_demand

\* The grid import the tertiary stage added to this tick's grid_power.
C8_Recharge ==
  IF tertiary_ai_enabled /\ RechargeApplies(battery_soc', island_mode)
  THEN RechargeRate * (last_update' - last_update) ELSE 0

\* C8 as claimed: the droop's power imbalance uses the grid_power the previous
\* tick left, with this tick's pv_output and load_demand.
C8_DroopUsesPreviousGrid ==
  [][(ActiveTick /\ outcome' = "completed")
       => power_imbalance' = pv_output' + Abs(grid_power) - load_demand']_vars

\* C8 as amended: the droop's power imbalance uses the grid_power this tick
\* assigned (the final grid_power less the tertiary recharge import).
C8_DroopUsesCurrentGrid ==
  [][(ActiveTick /\ outcome' = "completed")
       => power_imbalance' =
            pv_output' + Abs(grid_power' - C8_Recharge) - load_demand']_vars

\* C8 witness: the first tick completed with an imbalance that the initial
\* grid_power of 0.5 kW does not give.
C8_FirstTickDiffers ==
  /\ outcome = "completed"
  /\ ticks = 1
  /\ power_imbalance # pv_output + Abs(GridInit) - load_demand

C9_ImportDecayNeverRuns ==
  /\ "import_decay" \notin branches
  /\ outcome = "completed" /\ "recharge" \notin branches => grid_power <= 0

\* C10: a secondary frequency correction leaves the frequency on the same
\* side of nominal and no farther from it.
C10_CorrectionNudgesTowardNominal ==
  (outcome = "completed" /\ "secondary_freq" \in branches)
  => /\ \/ freq_error >= 0 /\ freq_corrected >= NominalFreq
        \/ freq_error <= 0 /\ freq_corrected <= NominalFreq
     /\ Abs(freq_corrected - NominalFreq) <= Abs(freq_error)

\* C11: after a call made while Active the seven columns have one length, and
\* the last record is the current state: voltage, frequency, battery_soc,
\* pv_output, load_demand and grid_power, stamped with last_update.
C11_LastRecordIsState ==
  (outcome \in {"completed", "raised"})
  => /\ \A k \in HistoryKeys : Len(data_history[k]) = HistoryLen
     /\ HistoryLen > 0
     /\ data_history["time"][HistoryLen] = last_update
     /\ data_history["voltage"][HistoryLen] = voltage
     /\ data_history["frequency"][HistoryLen] = frequency
     /\ data_history["battery_soc"][HistoryLen] = battery_soc
     /\ data_history["pv_output"][HistoryLen] = pv_output
     /\ data_history["load_demand"][HistoryLen] = load_demand
     /\ data_history["grid_power"][HistoryLen] = grid_power

\* C11, what holds instead: the same of the calls that complete, and the
\* columns have one length in every state.
C11_CompletedRecordIsState ==
  /\ \A k \in HistoryKeys : Len(data_history[k]) = HistoryLen
  /\ outcome = "completed"
       => /\ HistoryLen > 0
          /\ data_history["time"][HistoryLen] = last_update
          /\ data_history["voltage"][HistoryLen] = voltage
          /\ data_history["frequency"][HistoryLen] = frequency
          /\ data_history["battery_soc"][HistoryLen] = battery_soc
          /\ data_history["pv_output"][HistoryLen] = pv_output
          /\ data_history["load_demand"][HistoryLen] = load_demand
          /\ data_history["grid_power"][HistoryLen] = grid_power

====
